---- MODULE Spec2Model ----
(***************************************************************************)
(* Model of DeplotModelInterface (src/src/nv_ingest/util/nim/deplot.py):   *)
(* the four-stage adapter prepare_data_for_inference -> format_input ->    *)
(* parse_output -> process_inference_results, driven by an orchestrator    *)
(* that runs one or several pipeline runs on one adapter instance.         *)
(*                                                                         *)
(* Python values are modelled as follows.                                  *)
(*   dict            a function whose DOMAIN is the set of keys present    *)
(*   str             a sequence of tokens (so that " ".join is visible)    *)
(*   bytes           [t |-> "bytes", v |-> tokens]                         *)
(*   list/str value  [t |-> "list" | "str", v |-> elements] where the code *)
(*                   tests isinstance                                      *)
(*   np.ndarray      [shape, dtype, frames]: ndim is Len(shape); frames    *)
(*                   holds one entry per index of the batch axis (one for  *)
(*                   a 3-D image), each a representative pixel num/den     *)
(*                   tagged with the encoded image it was decoded from;    *)
(*                   mem says whose memory the array's buffer is: "data"   *)
(*                   for an array held by the input mapping (and any view  *)
(*                   of it), "local" for one the call allocated            *)
(*   call outcome    [ok, err, val, self, data]: the returned value or the *)
(*                   raised error, and the adapter instance and the input  *)
(*                   mapping as the call leaves them                       *)
(***************************************************************************)
EXTENDS Integers, Sequences, FiniteSets, TLC

\* ------------------------------------------------------------------ bounds
MaxImages == 3
MaxCap == 2

\* ------------------------------------------------------- Python primitives
Min(a, b) == IF a < b THEN a ELSE b

\* range(start, stop, step) for step > 0, as the sequence of its values
RECURSIVE PyRange(_, _, _)
PyRange(start, stop, step) ==
    IF start >= stop THEN <<>>
    ELSE <<start>> \o PyRange(start + step, stop, step)

\* lst[i : j] with 0-based i and Python's clamping of j
PySlice(lst, i, j) == SubSeq(lst, i + 1, Min(j, Len(lst)))

RECURSIVE Flatten(_)
Flatten(ss) == IF ss = <<>> THEN <<>> ELSE Head(ss) \o Flatten(Tail(ss))

\* d[k] = v on a dict
SetItem(d, k, v) == [x \in DOMAIN d \cup {k} |-> IF x = k THEN v ELSE d[x]]

\* sep.join(parts) on strings (token sequences)
RECURSIVE PyJoin(_, _)
PyJoin(sep, parts) ==
    IF parts = <<>> THEN <<>>
    ELSE IF Len(parts) = 1 THEN Head(parts)
    ELSE Head(parts) \o sep \o PyJoin(sep, Tail(parts))

\* call outcomes
Ok(val, self, data) ==
    [ok |-> TRUE, err |-> "", val |-> val, self |-> self, data |-> data]
Raise(e, self, data) ==
    [ok |-> FALSE, err |-> e, val |-> <<>>, self |-> self, data |-> data]

\* Errors carry the name the design gives them; the Python classes raised are
\* KeyError (MissingInputError, PreconditionError, MissingFieldError),
\* ValueError (InvalidInputTypeError, EmptyInputError, ShapeMismatchError,
\* UnsupportedProtocolError, RangeStepError) and RuntimeError
\* (MalformedResponseError); DecodeError is whatever the decoder raises.

\* -------------------------------------------------------------- data model
\* Encoded images the caller may supply: "a" and "b" decode to images of the
\* same (H, W, C), "c" to one of other dimensions, "d" to a 4-D batch of two
\* frames, and "x" is not decodable.
Encoded == {"a", "b", "c", "d", "x"}

Protocols == {"grpc", "http", "GRPC", "rest"}
Recognized == {"grpc", "http"}
Caps == 0..MaxCap

Px(id, k, n) == [id |-> id, k |-> k, num |-> n, den |-> 1]

\* base64_to_numpy: the decoder the adapter imports
base64_to_numpy(b64) ==
    CASE b64 = "a" -> [ok |-> TRUE,
                        v |-> [shape |-> <<2, 2, 3>>, dtype |-> "uint8", mem |-> "data",
                               frames |-> <<Px("a", 1, 0)>>]]
      [] b64 = "b" -> [ok |-> TRUE,
                        v |-> [shape |-> <<2, 2, 3>>, dtype |-> "uint8", mem |-> "data",
                               frames |-> <<Px("b", 1, 255)>>]]
      [] b64 = "c" -> [ok |-> TRUE,
                        v |-> [shape |-> <<4, 2, 3>>, dtype |-> "uint8", mem |-> "data",
                               frames |-> <<Px("c", 1, 51)>>]]
      [] b64 = "d" -> [ok |-> TRUE,
                        v |-> [shape |-> <<2, 2, 2, 3>>, dtype |-> "uint8", mem |-> "data",
                               frames |-> <<Px("d", 1, 51), Px("d", 2, 102)>>]]
      [] OTHER -> [ok |-> FALSE,
                   v |-> [shape |-> <<>>, dtype |-> "", mem |-> "", frames |-> <<>>]]

ndim(arr) == Len(arr.shape)

\* np.expand_dims(arr, axis=0): a view, the buffer is shared
expand_dims(arr) == [arr EXCEPT !.shape = <<1>> \o @]

\* Mutant: a cast that reuses the argument's buffer (copy=False)
astype_nocopy(arr) == [arr EXCEPT !.dtype = "float32"]

\* arr.astype(np.float32): a new array, the argument is left alone
astype_float32(arr) == [arr EXCEPT !.dtype = "float32", !.mem = "local"]

\* arr /= 255.0, in place in arr's buffer
div255(arr) ==
    [arr EXCEPT !.frames =
        [i \in 1..Len(@) |-> [@[i] EXCEPT !.den = @ * 255]]]

RECURSIVE SumBatch(_)
SumBatch(chunk) ==
    IF chunk = <<>> THEN 0 ELSE Head(chunk).shape[1] + SumBatch(Tail(chunk))

\* np.concatenate(chunk, axis=0) on arrays that agree outside axis 0
concatenate(chunk) ==
    [shape |-> <<SumBatch(chunk)>> \o Tail(chunk[1].shape),
     dtype |-> chunk[1].dtype,
     mem |-> "local",
     frames |-> Flatten([i \in 1..Len(chunk) |-> chunk[i].frames])]

PyList(v) == [t |-> "list", v |-> v]
PyStr(v) == [t |-> "str", v |-> v]
PyBytes(v) == [t |-> "bytes", v |-> v]

\* The adapter instance: its attribute list (the class defines none)
EmptySelf == <<>>

\* ------------------------------------------------------------- operations
\* [base64_to_numpy(b64) for b64 in base64_list]: the first element that
\* does not decode raises, and the comprehension yields nothing
RECURSIVE decode_list(_)
decode_list(base64_list) ==
    IF base64_list = <<>> THEN [ok |-> TRUE, v |-> <<>>]
    ELSE LET h == base64_to_numpy(Head(base64_list)) IN
         IF ~h.ok THEN [ok |-> FALSE, v |-> <<>>]
         ELSE LET t == decode_list(Tail(base64_list)) IN
              IF ~t.ok THEN t ELSE [ok |-> TRUE, v |-> <<h.v>> \o t.v]

\* Mutant: the list is stored in the mapping first and filled while decoding
RECURSIVE decode_prefix(_)
decode_prefix(base64_list) ==
    IF base64_list = <<>> THEN <<>>
    ELSE LET h == base64_to_numpy(Head(base64_list)) IN
         IF ~h.ok THEN <<>> ELSE <<h.v>> \o decode_prefix(Tail(base64_list))

prepare_incremental(self, data) ==
    IF "base64_images" \in DOMAIN data /\ data["base64_images"].t # "list"
    THEN Raise("InvalidInputTypeError", self, data)
    ELSE IF DOMAIN data \cap {"base64_images", "base64_image"} = {}
    THEN Raise("MissingInputError", self, data)
    ELSE LET base64_list == IF "base64_images" \in DOMAIN data
                            THEN data["base64_images"].v
                            ELSE <<data["base64_image"]>>
             out == SetItem(data, "image_arrays", decode_prefix(base64_list))
         IN  IF decode_list(base64_list).ok THEN Ok(out, self, out)
             ELSE Raise("DecodeError", self, out)

prepare_data_for_inference(self, data) ==
    IF "base64_images" \in DOMAIN data THEN
        LET base64_list == data["base64_images"] IN
        IF base64_list.t # "list"
        THEN Raise("InvalidInputTypeError", self, data)
        ELSE LET d == decode_list(base64_list.v) IN
             IF ~d.ok THEN Raise("DecodeError", self, data)
             ELSE LET out == SetItem(data, "image_arrays", d.v) IN
                  Ok(out, self, out)
    ELSE IF "base64_image" \in DOMAIN data THEN
        LET d == decode_list(<<data["base64_image"]>>) IN
        IF ~d.ok THEN Raise("DecodeError", self, data)
        ELSE LET out == SetItem(data, "image_arrays", d.v) IN
             Ok(out, self, out)
    ELSE Raise("MissingInputError", self, data)

\* Mutant: the range stops one short, range(0, len(lst) - 1, chunk_size)
chunk_list_short(lst, chunk_size) ==
    LET starts == PyRange(0, Len(lst) - 1, chunk_size) IN
    [k \in 1..Len(starts) |-> PySlice(lst, starts[k], starts[k] + chunk_size)]

\* chunk_list(lst, chunk_size) for chunk_size > 0
chunk_list(lst, chunk_size) ==
    LET starts == PyRange(0, Len(lst), chunk_size) IN
    [k \in 1..Len(starts) |-> PySlice(lst, starts[k], starts[k] + chunk_size)]

\* the loop body of the gRPC branch: promote, cast, scale
normalize(arr) ==
    div255(astype_float32(IF ndim(arr) = 3 THEN expand_dims(arr) ELSE arr))

\* Mutant: only the second image is compared with the first
shapes_differ_first_two(processed) ==
    Len(processed) >= 2 /\ Tail(processed[2].shape) # Tail(processed[1].shape)

\* any(s != shapes[0] for s in shapes[1:])
shapes_differ(processed) ==
    LET shapes == [i \in 1..Len(processed) |-> Tail(processed[i].shape)] IN
    \E i \in 2..Len(shapes) : shapes[i] # shapes[1]

_prepare_deplot_payload(base64_list) ==
    [model |-> "google/deplot",
     messages |-> [i \in 1..Len(base64_list) |->
                     [role |-> "user",
                      content |-> <<"Generate the underlying data table of the figure below: ",
                                    "<img src=\"data:image/png;base64,",
                                    base64_list[i], "\" />">>]],
     max_tokens |-> 500,
     stream |-> FALSE,
     temperature |-> "0.5",
     top_p |-> "0.9"]

\* What the gRPC loop leaves in the caller's list: an array whose buffer the
\* in-place division wrote to holds the scaled values
after_loop(image_arrays, processed) ==
    [i \in 1..Len(image_arrays) |->
        IF processed[i].mem = "data"
        THEN [image_arrays[i] EXCEPT !.frames = processed[i].frames,
                                     !.dtype = processed[i].dtype]
        ELSE image_arrays[i]]

\* the gRPC branch of format_input
format_grpc(self, data, max_batch_size) ==
    LET image_arrays == data["image_arrays"]
        processed == [i \in 1..Len(image_arrays) |-> normalize(image_arrays[i])]
        after == [data EXCEPT !["image_arrays"] = after_loop(image_arrays, processed)]
    IN  IF processed = <<>> THEN Raise("EmptyInputError", self, after)
        ELSE IF shapes_differ(processed) THEN Raise("ShapeMismatchError", self, after)
        ELSE IF max_batch_size = 0 THEN Raise("RangeStepError", self, after)
        ELSE LET chunks == chunk_list(processed, max_batch_size) IN
             Ok([k \in 1..Len(chunks) |-> concatenate(chunks[k])], self, after)

\* the HTTP branch of format_input
format_http(self, data, max_batch_size) ==
    LET base64_list == IF "base64_images" \in DOMAIN data
                       THEN data["base64_images"].v
                       ELSE <<data["base64_image"]>>
    IN  IF max_batch_size = 0 THEN Raise("RangeStepError", self, data)
        ELSE LET chunks == chunk_list(base64_list, max_batch_size) IN
             Ok([k \in 1..Len(chunks) |-> _prepare_deplot_payload(chunks[k])], self, data)

\* Mutant: the image_arrays guard sits in the gRPC branch only
format_input_guard_grpc_only(self, data, protocol, max_batch_size) ==
    IF protocol = "grpc" THEN
        IF "image_arrays" \notin DOMAIN data
        THEN Raise("PreconditionError", self, data)
        ELSE format_grpc(self, data, max_batch_size)
    ELSE IF protocol = "http" THEN
        IF DOMAIN data \cap {"base64_images", "base64_image"} = {}
           \/ ("base64_images" \in DOMAIN data /\ data["base64_images"].t # "list")
        THEN Raise("MissingFieldError", self, data)
        ELSE format_http(self, data, max_batch_size)
    ELSE Raise("UnsupportedProtocolError", self, data)

\* Mutant: the protocol is compared without regard to case
format_input_any_case(self, data, protocol, max_batch_size) ==
    IF "image_arrays" \notin DOMAIN data
    THEN Raise("PreconditionError", self, data)
    ELSE IF protocol \in {"grpc", "GRPC"} THEN format_grpc(self, data, max_batch_size)
    ELSE IF protocol = "http" THEN format_http(self, data, max_batch_size)
    ELSE Raise("UnsupportedProtocolError", self, data)

\* Mutant: the batches are memoised on the adapter instance
format_input_cached(self, data, protocol, max_batch_size) ==
    IF Len(self) > 0 THEN Ok(self[1], self, data)
    ELSE LET out ==
                 IF "image_arrays" \notin DOMAIN data
                 THEN Raise("PreconditionError", self, data)
                 ELSE IF protocol = "grpc" THEN format_grpc(self, data, max_batch_size)
                 ELSE IF protocol = "http" THEN format_http(self, data, max_batch_size)
                 ELSE Raise("UnsupportedProtocolError", self, data)
         IN  IF out.ok THEN [out EXCEPT !.self = <<out.val>>] ELSE out

format_input(self, data, protocol, max_batch_size) ==
    IF "image_arrays" \notin DOMAIN data
    THEN Raise("PreconditionError", self, data)
    ELSE IF protocol = "grpc" THEN format_grpc(self, data, max_batch_size)
    ELSE IF protocol = "http" THEN format_http(self, data, max_batch_size)
    ELSE Raise("UnsupportedProtocolError", self, data)

\* Mutant: the last choice is returned instead of the first
extract_last_choice(self, json_response) ==
    IF "choices" \notin DOMAIN json_response \/ json_response["choices"] = <<>>
    THEN Raise("MalformedResponseError", self, <<>>)
    ELSE LET last == json_response["choices"][Len(json_response["choices"])] IN
         IF "message" \notin DOMAIN last
         THEN Raise("MissingFieldError", self, <<>>)
         ELSE Ok(last["message"]["content"], self, <<>>)

_extract_content_from_deplot_response(self, json_response) ==
    IF "choices" \notin DOMAIN json_response \/ json_response["choices"] = <<>>
    THEN Raise("MalformedResponseError", self, <<>>)
    ELSE LET first == json_response["choices"][1] IN
         IF "message" \notin DOMAIN first
         THEN Raise("MissingFieldError", self, <<>>)
         ELSE Ok(first["message"]["content"], self, <<>>)

\* one element of a gRPC response
parse_item(item) ==
    IF item.t = "list"
    THEN PyJoin(<<" ">>, [i \in 1..Len(item.v) |-> item.v[i].v])
    ELSE item.v

parse_output(self, response, protocol) ==
    IF protocol = "grpc"
    THEN Ok([i \in 1..Len(response) |-> parse_item(response[i])], self, <<>>)
    ELSE IF protocol = "http"
    THEN _extract_content_from_deplot_response(self, response)
    ELSE Raise("UnsupportedProtocolError", self, <<>>)

process_inference_results(self, output, protocol) == Ok(output, self, <<>>)

\* ------------------------------------------------------- the remote model
\* The inference service is outside the adapter.  A well-formed reply holds
\* one result per image of the batch it answers; the reply's form (and
\* whether it is well-formed at all) is the service's choice.
GrpcForms == {"bytes", "list", "str"}
HttpForms == {"choices", "empty", "absent", "nomessage"}
Forms(protocol) == IF protocol = "http" THEN HttpForms ELSE GrpcForms

GrpcItem(id, form) ==
    CASE form = "bytes" -> PyBytes(<<"T", id>>)
      [] form = "list" -> PyList(<<PyBytes(<<"T">>), PyBytes(<<id>>)>>)
      [] OTHER -> PyStr(<<"T", id>>)

Respond(protocol, batch, form) ==
    IF protocol # "http"
    THEN [i \in 1..Len(batch.frames) |-> GrpcItem(batch.frames[i].id, form)]
    ELSE CASE form = "choices" ->
                [id |-> "cmpl",
                 choices |-> [i \in 1..Len(batch.messages) |->
                     [index |-> i,
                      message |-> [content |-> <<"T", batch.messages[i].content[3]>>]]]]
           [] form = "nomessage" ->
                [id |-> "cmpl",
                 choices |-> [i \in 1..Len(batch.messages) |-> [index |-> i]]]
           [] form = "empty" -> [id |-> "cmpl", choices |-> <<>>]
           [] OTHER -> [id |-> "cmpl"]

\* ------------------------------------------------------------------ inputs
RECURSIVE SeqsUpTo(_, _)
SeqsUpTo(S, n) ==
    IF n = 0 THEN {<<>>}
    ELSE LET shorter == SeqsUpTo(S, n - 1) IN
         shorter \cup {Append(q, e) : q \in shorter, e \in S}

NoKeys == [k \in {} |-> <<>>]
Single(e) == [base64_image |-> e]
Plural(v) == [base64_images |-> v]
Both(e, v) == [base64_image |-> e, base64_images |-> v]

\* The mappings a caller may hand in: neither key, the single key, the plural
\* key holding a list or a string, and both keys together.
InputMappings ==
    {NoKeys}
    \cup {Single(e) : e \in Encoded}
    \cup {Plural(PyList(l)) : l \in SeqsUpTo(Encoded, MaxImages)}
    \cup {Plural(PyStr(<<"a", "b">>))}
    \cup {Both(e, PyStr(<<"a", "b">>)) : e \in {"a"}}
    \cup {Both(e, PyList(l)) : e \in {"b", "x"}, l \in SeqsUpTo({"a"}, 1)}

\* The mappings of the runs that share one adapter instance
SharedMappings ==
    {Single("a"), Plural(PyList(<<"a", "b">>)), Plural(PyList(<<"b", "a">>)),
     Plural(PyList(<<"d">>)), Plural(PyList(<<"a", "x">>))}

Runs == {1, 2}

\* ------------------------------------------------------------------- state
VARIABLES
    self,       \* the shared adapter instance
    pc,         \* pc[r]: where run r's orchestrator stands
    input,      \* input[r]: the mapping as the caller built it
    data,       \* data[r]: the mapping object of run r, as it is now
    proto,      \* proto[r]: the protocol of run r
    cap,        \* cap[r]: max_batch_size of run r
    prepared,   \* prepared[r]: a prepare_data_for_inference call has succeeded
    batches,    \* batches[r]: what format_input returned
    responses,  \* responses[r]: the service's replies, one per batch
    cursor,     \* cursor[r]: how many replies have been parsed
    used,       \* used[r]: the protocol given to the last parse_output call
    parsed,     \* parsed[r]: the parsed results collected so far
    result,     \* result[r]: what process_inference_results returned
    err         \* err[r]: the error that ended run r, "" if none

vars == <<self, pc, input, data, proto, cap, prepared, batches, responses,
          cursor, used, parsed, result, err>>

InitWith(active, mappings, protocols, caps) ==
    /\ self = EmptySelf
    /\ pc = [r \in Runs |-> IF r \in active THEN "start" ELSE "off"]
    /\ input \in [Runs -> mappings]
    /\ \A r \in Runs \ active : input[r] = NoKeys
    /\ data = input
    /\ proto \in [Runs -> protocols]
    /\ \A r \in Runs \ active : proto[r] = "grpc"
    /\ cap \in [Runs -> caps]
    /\ \A r \in Runs \ active : cap[r] = 1
    /\ prepared = [r \in Runs |-> FALSE]
    /\ batches = [r \in Runs |-> <<>>]
    /\ responses = [r \in Runs |-> <<>>]
    /\ cursor = [r \in Runs |-> 0]
    /\ used = [r \in Runs |-> ""]
    /\ parsed = [r \in Runs |-> <<>>]
    /\ result = [r \in Runs |-> <<>>]
    /\ err = [r \in Runs |-> ""]

\* one pipeline run, every input the data model allows
Init == InitWith({1}, InputMappings, Protocols, Caps)

\* two runs on the one adapter instance
InitShared == InitWith(Runs, SharedMappings \cup {NoKeys}, Recognized, {1, 2})

\* ----------------------------------------------------------------- actions
\* prepare_data_for_inference(data); the orchestrator may repeat the call
Prepare(r) ==
    /\ pc[r] \in {"start", "prepared"}
    /\ LET out == prepare_data_for_inference(self, data[r]) IN
       /\ self' = out.self
       /\ data' = [data EXCEPT ![r] = out.data]
       /\ pc' = [pc EXCEPT ![r] = IF out.ok THEN "prepared" ELSE "prepare_failed"]
       /\ prepared' = [prepared EXCEPT ![r] = @ \/ out.ok]
       /\ err' = [err EXCEPT ![r] = out.err]
    /\ UNCHANGED <<input, proto, cap, batches, responses, cursor, used, parsed, result>>

\* format_input(data, protocol, max_batch_size), also when the orchestrator
\* calls it without (or after a failed) prepare_data_for_inference
Format(r) ==
    /\ pc[r] \in {"start", "prepare_failed", "prepared"}
    /\ LET out == format_input(self, data[r], proto[r], cap[r]) IN
       /\ self' = out.self
       /\ data' = [data EXCEPT ![r] = out.data]
       /\ pc' = [pc EXCEPT ![r] = IF out.ok THEN "formatted" ELSE "format_failed"]
       /\ batches' = [batches EXCEPT ![r] = out.val]
       /\ err' = [err EXCEPT ![r] = out.err]
    /\ UNCHANGED <<input, proto, cap, prepared, responses, cursor, used, parsed, result>>

\* the inference client sends every batch and receives the replies
Infer(r) ==
    /\ pc[r] = "formatted"
    /\ \E form \in Forms(proto[r]) :
          responses' = [responses EXCEPT ![r] =
              [b \in 1..Len(batches[r]) |-> Respond(proto[r], batches[r][b], form)]]
    /\ pc' = [pc EXCEPT ![r] = "inferred"]
    /\ UNCHANGED <<self, input, data, proto, cap, prepared, batches, cursor, used,
                   parsed, result, err>>

\* parse_output(response, protocol) on the next reply; the results of the
\* replies are collected in batch order
Parse(r) ==
    /\ pc[r] = "inferred"
    /\ cursor[r] < Len(responses[r])
    /\ \E p \in {proto[r]} \cup (Protocols \ Recognized) :
          LET out == parse_output(self, responses[r][cursor[r] + 1], p) IN
          /\ self' = out.self
          /\ used' = [used EXCEPT ![r] = p]
          /\ err' = [err EXCEPT ![r] = out.err]
          /\ IF out.ok
             THEN /\ parsed' = [parsed EXCEPT ![r] =
                        IF p = "grpc" THEN @ \o out.val ELSE Append(@, out.val)]
                  /\ cursor' = [cursor EXCEPT ![r] = @ + 1]
                  /\ pc' = pc
             ELSE /\ pc' = [pc EXCEPT ![r] = "parse_failed"]
                  /\ UNCHANGED <<parsed, cursor>>
    /\ UNCHANGED <<input, data, proto, cap, prepared, batches, responses, result>>

\* process_inference_results(output, protocol) on the collected results
Postprocess(r) ==
    /\ pc[r] = "inferred"
    /\ cursor[r] = Len(responses[r])
    /\ LET out == process_inference_results(self, parsed[r], proto[r]) IN
       /\ self' = out.self
       /\ result' = [result EXCEPT ![r] = out.val]
       /\ pc' = [pc EXCEPT ![r] = "done"]
    /\ UNCHANGED <<input, data, proto, cap, prepared, batches, responses, cursor,
                   used, parsed, err>>

Next == \E r \in Runs :
    \/ Prepare(r)
    \/ Format(r)
    \/ Infer(r)
    \/ Parse(r)
    \/ Postprocess(r)

Spec == Init /\ [][Next]_vars
SpecShared == InitShared /\ [][Next]_vars

\* ------------------------------------------------------ claims: vocabulary
HasImages(r) == "image_arrays" \in DOMAIN data[r]
Images(r) == data[r]["image_arrays"]
EncodedList(r) ==
    IF "base64_images" \in DOMAIN input[r]
    THEN input[r]["base64_images"].v
    ELSE <<input[r]["base64_image"]>>

\* format_input has been called / has returned batches
FormatCalled(r) ==
    pc[r] \in {"format_failed", "formatted", "inferred", "parse_failed", "done"}
Formatted(r) == pc[r] \in {"formatted", "inferred", "parse_failed", "done"}

AllSingle(imgs) == \A i \in 1..Len(imgs) : Len(imgs[i].shape) = 3
HWC(img) == IF Len(img.shape) = 3 THEN img.shape ELSE Tail(img.shape)
CeilDiv(n, c) == (n + c - 1) \div c

\* the number of images a batch carries
BatchSize(protocol, batch) ==
    IF protocol = "grpc" THEN batch.shape[1] ELSE Len(batch.messages)

\* the elements of the batches, batch by batch, each batch in its own order
Elements(protocol, bs) ==
    IF protocol = "grpc"
    THEN Flatten([b \in 1..Len(bs) |-> bs[b].frames])
    ELSE Flatten([b \in 1..Len(bs) |->
                    [m \in 1..Len(bs[b].messages) |-> bs[b].messages[m].content[3]]])

\* image i as a gRPC batch holds it: the same pixels over 255
Scaled(img) == [img.frames[1] EXCEPT !.den = 255]

\* C1: for N >= 1 single images and a cap C >= 1, format_input returns
\* ceil(N/C) batches under either protocol, and the batches read in order give
\* back the N inputs in their original order, none lost or duplicated.
C1_Chunking ==
    \A r \in Runs :
        (Formatted(r) /\ cap[r] >= 1 /\ Len(Images(r)) >= 1 /\ AllSingle(Images(r)))
        => /\ Len(batches[r]) = CeilDiv(Len(Images(r)), cap[r])
           /\ Len(Elements(proto[r], batches[r])) = Len(Images(r))
           /\ proto[r] = "grpc" =>
                 /\ Elements("grpc", batches[r])
                        = [i \in 1..Len(Images(r)) |-> Scaled(Images(r)[i])]
                 /\ \A b \in 1..Len(batches[r]) : batches[r][b].dtype = "float32"
           /\ proto[r] = "http" => Elements("http", batches[r]) = EncodedList(r)

\* three distinct-position images under a cap of two: two batches, 2 + 1
C1_Witness ==
    \E r \in Runs :
        /\ Formatted(r) /\ proto[r] = "grpc" /\ cap[r] = 2
        /\ EncodedList(r) = <<"a", "b", "a">>
        /\ Len(batches[r]) = 2

\* C2: every batch format_input returns carries at most max_batch_size
\* images, also when elements of the list already carry a batch dimension.
C2_BatchBound ==
    \A r \in Runs :
        Formatted(r) =>
            \A b \in 1..Len(batches[r]) : BatchSize(proto[r], batches[r][b]) <= cap[r]

\* every reply held one result per image of the batch it answered
WellFormed(r) ==
    \A b \in 1..Len(responses[r]) :
        IF proto[r] = "grpc"
        THEN Len(responses[r][b]) = BatchSize("grpc", batches[r][b])
        ELSE /\ "choices" \in DOMAIN responses[r][b]
             /\ Len(responses[r][b]["choices"]) = BatchSize("http", batches[r][b])
             /\ \A c \in 1..Len(responses[r][b]["choices"]) :
                    "message" \in DOMAIN responses[r][b]["choices"][c]

\* C3: when every batch is answered with one result per image, parsing the
\* replies in batch order yields exactly N strings, the i-th being the result
\* for input image i (stated for lists of single images).
C3_RoundTrip ==
    \A r \in Runs :
        (pc[r] = "done" /\ WellFormed(r) /\ AllSingle(Images(r)))
        => /\ Len(result[r]) = Len(Images(r))
           /\ \A i \in 1..Len(result[r]) :
                  result[r][i][Len(result[r][i])] = EncodedList(r)[i]

\* C4 as stated: no call changes the adapter instance or any argument.
C4_NoCallChangesArguments == [][self' = self /\ data' = data]_vars

\* C4, amended: no call changes the adapter instance; the only call that
\* changes an argument is a successful prepare_data_for_inference, which sets
\* data["image_arrays"] to the decoded list (one array per encoded image) and
\* leaves every other key alone; format_input, parse_output and
\* process_inference_results leave the mapping and its arrays as they were,
\* and repeating prepare_data_for_inference leaves the mapping as the first
\* call left it.
C4_OnlyPrepareWritesMapping ==
    [][/\ self' = self
       /\ \A r \in Runs :
            /\ data'[r] # data[r] =>
                  /\ pc[r] = "start" /\ pc'[r] = "prepared"
                  /\ DOMAIN data'[r] = DOMAIN data[r] \cup {"image_arrays"}
                  /\ \A k \in DOMAIN data[r] : data'[r][k] = data[r][k]
                  /\ Len(data'[r]["image_arrays"]) = Len(EncodedList(r))
            /\ (pc[r] = "prepared" /\ pc'[r] = "prepared") => data'[r] = data[r]
      ]_vars

\* all four operations have acted on a mapping that prepare extended
C4_Witness ==
    \E r \in Runs :
        /\ pc[r] = "done" /\ proto[r] = "grpc"
        /\ data[r] # input[r]
        /\ Len(result[r]) = 2

\* C5: format_input returns a result only after a successful
\* prepare_data_for_inference on the mapping; called on a mapping whose image
\* list is not populated it fails with PreconditionError, for every protocol
\* value and every max_batch_size, and returns no batch.
C5_FormatNeedsPrepare ==
    \A r \in Runs :
        /\ Formatted(r) => prepared[r]
        /\ (FormatCalled(r) /\ ~prepared[r])
           => /\ pc[r] = "format_failed"
              /\ err[r] = "PreconditionError"
              /\ batches[r] = <<>>

\* format_input without prepare, an unrecognized protocol and a cap of zero
C5_Witness ==
    \E r \in Runs :
        /\ pc[r] = "format_failed" /\ ~prepared[r]
        /\ proto[r] = "rest" /\ cap[r] = 0
        /\ input[r] = Single("a")

Mismatch(imgs) == \E i, j \in 1..Len(imgs) : HWC(imgs[i]) # HWC(imgs[j])

\* C6: gRPC format_input on a list in which two images differ in (H, W, C)
\* fails with ShapeMismatchError wherever the differing image stands and
\* whatever max_batch_size is, and returns no batch; on an empty list it fails
\* with EmptyInputError.
C6_ShapeMismatch ==
    \A r \in Runs :
        (FormatCalled(r) /\ prepared[r] /\ proto[r] = "grpc")
        => /\ Mismatch(Images(r))
              => /\ pc[r] = "format_failed"
                 /\ err[r] = "ShapeMismatchError"
                 /\ batches[r] = <<>>
           /\ Images(r) = <<>>
              => /\ pc[r] = "format_failed"
                 /\ err[r] = "EmptyInputError"
                 /\ batches[r] = <<>>

\* the differing image is the third, alone in its chunk under a cap of one
C6_Witness ==
    \E r \in Runs :
        /\ pc[r] = "format_failed" /\ err[r] = "ShapeMismatchError"
        /\ proto[r] = "grpc" /\ cap[r] = 1
        /\ EncodedList(r) = <<"a", "b", "c">>

NeitherKey(m) == DOMAIN m \cap {"base64_image", "base64_images"} = {}
PluralNotList(m) ==
    "base64_images" \in DOMAIN m /\ m["base64_images"].t # "list"

\* C7: prepare_data_for_inference fails with MissingInputError when the
\* mapping has neither key and with InvalidInputTypeError when base64_images
\* is not a list (also when base64_image is present); a failing call, a decode
\* failure part-way through the list included, leaves the mapping as it was.
C7_PrepareAtomic ==
    \A r \in Runs :
        /\ prepared[r] => ~NeitherKey(input[r]) /\ ~PluralNotList(input[r])
        /\ ~prepared[r] => data[r] = input[r] /\ ~HasImages(r)
        /\ pc[r] = "prepare_failed"
           => /\ ~prepared[r]
              /\ err[r] \in {"MissingInputError", "InvalidInputTypeError", "DecodeError"}
              /\ NeitherKey(input[r]) <=> err[r] = "MissingInputError"
              /\ PluralNotList(input[r]) <=> err[r] = "InvalidInputTypeError"

\* the second element of the list fails to decode after the first decoded
C7_Witness ==
    \E r \in Runs :
        /\ pc[r] = "prepare_failed" /\ err[r] = "DecodeError"
        /\ "base64_images" \in DOMAIN input[r]
        /\ EncodedList(r) = <<"a", "x">>

\* the reply the last parse_output call was given
LastReply(r) ==
    responses[r][IF pc[r] = "parse_failed" THEN cursor[r] + 1 ELSE cursor[r]]

ParsedCount(r) ==
    IF proto[r] = "http" THEN cursor[r]
    ELSE Len(Flatten(SubSeq(responses[r], 1, cursor[r])))

\* C9: for a protocol other than "grpc" and "http", format_input on a
\* prepared mapping and parse_output on any reply fail with
\* UnsupportedProtocolError and produce no batch and no parsed result; for
\* the two recognized values neither raises UnsupportedProtocolError.
C9_ClosedProtocolSet ==
    \A r \in Runs :
        /\ (FormatCalled(r) /\ prepared[r] /\ proto[r] \notin Recognized)
           => /\ pc[r] = "format_failed"
              /\ err[r] = "UnsupportedProtocolError"
              /\ batches[r] = <<>>
        /\ (pc[r] = "format_failed" /\ proto[r] \in Recognized)
           => err[r] # "UnsupportedProtocolError"
        /\ (used[r] # "" /\ used[r] \notin Recognized)
           => /\ pc[r] = "parse_failed"
              /\ err[r] = "UnsupportedProtocolError"
              /\ Len(parsed[r]) = ParsedCount(r)
              /\ result[r] = <<>>
        /\ (used[r] \in Recognized /\ pc[r] = "parse_failed")
           => err[r] # "UnsupportedProtocolError"

\* parse_output given "GRPC" after a reply was parsed under "grpc"
C9_Witness ==
    \E r \in Runs :
        /\ used[r] = "GRPC" /\ proto[r] = "grpc"
        /\ pc[r] = "parse_failed" /\ cursor[r] >= 1

\* run r on an adapter instance of its own
SoloPrepare(r) == prepare_data_for_inference(EmptySelf, input[r])
SoloData(r) == IF prepared[r] THEN SoloPrepare(r).data ELSE input[r]
SoloFormat(r) == format_input(EmptySelf, SoloData(r), proto[r], cap[r])

RECURSIVE SoloCollect(_, _)
SoloCollect(protocol, resps) ==
    IF resps = <<>> THEN <<>>
    ELSE LET out == parse_output(EmptySelf, Head(resps), protocol) IN
         (IF protocol = "grpc" THEN out.val ELSE <<out.val>>)
             \o SoloCollect(protocol, Tail(resps))

\* C10: when several runs execute concurrently on one adapter instance, each
\* on its own mapping, every run has under every interleaving the mapping,
\* the batches, the parsed results, the result and the error it has when it
\* runs alone, and the shared instance is never written.
C10_Reentrant ==
    /\ self = EmptySelf
    /\ \A r \in Runs :
        /\ data[r] = SoloData(r)
        /\ pc[r] = "prepare_failed" => err[r] = SoloPrepare(r).err
        /\ FormatCalled(r) => batches[r] = SoloFormat(r).val
        /\ pc[r] = "format_failed" => err[r] = SoloFormat(r).err
        /\ pc[r] \in {"inferred", "done"}
           => parsed[r] = SoloCollect(proto[r], SubSeq(responses[r], 1, cursor[r]))
        /\ pc[r] = "done"
           => result[r] = process_inference_results(
                              EmptySelf, SoloCollect(proto[r], responses[r]), proto[r]).val

\* two runs with different mappings and protocols have both finished
C10_Witness ==
    /\ pc[1] = "done" /\ pc[2] = "done"
    /\ proto[1] = "grpc" /\ proto[2] = "http"
    /\ input[1] = Plural(PyList(<<"a", "b">>))
    /\ input[2] = Plural(PyList(<<"b", "a">>))
    /\ result[1] # <<>> /\ result[2] # <<>>

====
